---- MODULE Spec2Model ----
(***************************************************************************)
(* Model of graph_forks (ledger-tool/src/main.rs): fork-tip resolution,    *)
(* last-vote aggregation, the chain walk that emits nodes and edges, the   *)
(* absent-vote accounting and the assembly of the dot document; of the     *)
(* sink the graph command hands the document to (render_dot or a file);    *)
(* and of get_latest_optimistic_slots.                                     *)
(*                                                                         *)
(* HashSet / HashMap iteration has no defined order in Rust: every loop    *)
(* over such a collection takes its elements in an order chosen by \E.     *)
(***************************************************************************)
EXTENDS Integers, Sequences, FiniteSets, TLC

(* ------------------------------ bounds --------------------------------- *)

\* Banks live at slots 0..MaxSlot.
MaxSlot == 2

\* Slots per epoch of the epoch schedule behind Bank::epoch().
SlotsPerEpoch == 2

\* std::u64::MAX, the width of Slot scaled down to five bits.
U64_MAX == 31

Slots == 0..MaxSlot

\* The slots voted for: the bank slots and the highest slot of all.
VoteSlots == Slots \cup {U64_MAX}

\* The stakes of vote accounts, in lamports.
Stakes == {1, 2}

\* Validator identities (VoteState::node_pubkey).
Nodes == {"v1", "v2"}

\* Vote account addresses, in the order used to enumerate inputs only.
VoteKeys == <<"k1", "k2">>

(* ------------------------------ helpers -------------------------------- *)

Range(f) == {f[x] : x \in DOMAIN f}

\* Every order in which a hash collection holding the elements S may be iterated.
Orders(S) ==
    {o \in [1..Cardinality(S) -> S] : \A i, j \in 1..Cardinality(S) : i # j => o[i] # o[j]}

RECURSIVE SumOver(_, _)
\* Sum of f[x] over x in S.
SumOver(f, S) ==
    IF S = {} THEN 0
    ELSE LET x == CHOOSE y \in S : TRUE IN f[x] + SumOver(f, S \ {x})

\* Option<T> is a set with at most one element.
None == {}

Some(x) == {x}

Unwrap(o) == CHOOSE x \in o : TRUE

(* ------------------------------ inputs --------------------------------- *)

\* VoteState: node_pubkey and the chronological vote slots (votes, oldest first).
VoteSeqs == {<<>>} \cup {<<s>> : s \in VoteSlots}

VoteStates == [node_pubkey : Nodes, votes : VoteSeqs]

\* One entry of Bank::vote_accounts(): (stake, VoteAccount); vote_state() may fail.
Accounts == [stake : Stakes, vote_state : {None} \cup {Some(vs) : vs \in VoteStates}]

\* Parent links over the bank slots S: the lowest slot is the root (no parent),
\* every other bank has a parent at a lower slot.
Trees(S) ==
    {p \in [S -> {None} \cup {Some(q) : q \in S}] :
        \A s \in S :
            IF \A q \in S : s <= q THEN p[s] = None
            ELSE p[s] # None /\ Unwrap(p[s]) < s}

\* The vote accounts held: a prefix of VoteKeys, placed on banks in slot order.
HeldKeys == {{VoteKeys[i] : i \in 1..n} : n \in 0..Len(VoteKeys)}

Homes(held, S) ==
    {h \in [held -> S] :
        \A i, j \in 1..Len(VoteKeys) :
            (i < j /\ VoteKeys[i] \in held /\ VoteKeys[j] \in held)
                => h[VoteKeys[i]] <= h[VoteKeys[j]]}

MakeBankForks(S, p, home, acct) ==
    [b \in S |->
        [parent |-> p[b],
         vote_accounts |-> [k \in {x \in DOMAIN home : home[x] = b} |-> acct[k]]]]

\* Validator identities are interchangeable: the first vote account held, when
\* it has a vote state, is the one of a fixed identity.
FirstIdentity(held, acct) ==
    held # {} =>
        \A vs \in acct[VoteKeys[1]].vote_state :
            vs.node_pubkey = CHOOSE n \in Nodes : TRUE

\* Every BankForks the model runs graph_forks on.
IsBankForksInput(bf) ==
    \E S \in (SUBSET Slots) \ {{}} : \E held \in HeldKeys :
        \E p \in Trees(S), home \in Homes(held, S), acct \in [held -> Accounts] :
            /\ FirstIdentity(held, acct)
            /\ bf = MakeBankForks(S, p, home, acct)

\* GraphConfig.
GraphVoteAccountModes == {"Disabled", "LastOnly", "WithHistory"}

GraphConfigs == [include_all_votes : BOOLEAN, vote_account_mode : GraphVoteAccountModes]

\* The configuration of a run without options: main.rs:1320, main.rs:2796.
DefaultGraphConfig == [include_all_votes |-> FALSE, vote_account_mode |-> "Disabled"]

(* ------------------------------- state --------------------------------- *)

VARIABLES
    bank_forks,                 \* input: slot -> [parent, vote_accounts]
    config,                     \* input: GraphConfig
    pc,                         \* position in graph_forks
    fork_slots,                 \* HashSet<Slot>
    fork_order,                 \* the order in which fork_slots iterates
    last_votes,                 \* HashMap<Pubkey, (Slot, VoteState, u64, u64)>
    vote_order,                 \* the order in which last_votes iterates
    slot_stake_and_vote_count,  \* HashMap<Slot, (votes, stake, total_stake)>
    dot,                        \* Vec<String>, one statement per element
    styled_slots,               \* HashSet<Slot>
    all_votes,                  \* HashMap<Pubkey, HashMap<Slot, VoteState>>
    i,                          \* index of the current loop in its order
    bank,                       \* the bank of the walk loop
    first,                      \* the flag of the walk loop
    absent_stake,
    absent_votes,
    lowest_last_vote_slot,
    lowest_total_stake,
    run,                        \* number of the run of graph_forks on this input
    first_dot,                  \* the document the first run returned
    extension,                  \* input: the extension of output_file
    sink,                       \* the sink main chose for the document
    written,                    \* the bytes the sink received
    result,                     \* the io::Result of the sink
    stdout,                     \* lines printed with println!
    stderr,                     \* lines printed with eprintln!
    blockstore,                 \* input: the Blockstore of get_latest_optimistic_slots
    num_slots,                  \* input
    exclude_vote_only_slots,    \* input
    latest_slot,                \* the local of get_latest_optimistic_slots
    slot_iter,                  \* the position of the AncestorIterator
    optimistic_slots,           \* the Vec collected and returned
    mode_string,                \* input: the &str given to from_str
    mode_value,                 \* input: a GraphVoteAccountMode
    parsed,                     \* the Result of from_str(mode_string)
    mode_str,                   \* the &str of mode_value.as_ref()
    reparsed,                   \* the Result of from_str(mode_value.as_ref())
    enabled,                    \* the bool of mode_value.is_enabled()
    default_mode                \* the value of GraphVoteAccountMode::default()

\* The state of the graph command around graph_forks.
command == <<extension, sink, written, result, stdout, stderr>>

\* The state of get_latest_optimistic_slots.
optimistic ==
    <<blockstore, num_slots, exclude_vote_only_slots, latest_slot, slot_iter,
      optimistic_slots>>

\* The state of the calls on GraphVoteAccountMode.
modes == <<mode_string, mode_value, parsed, mode_str, reparsed, enabled, default_mode>>

vars ==
    <<bank_forks, config, pc, fork_slots, fork_order, last_votes, vote_order,
      slot_stake_and_vote_count, dot, styled_slots, all_votes, i, bank, first,
      absent_stake, absent_votes, lowest_last_vote_slot, lowest_total_stake,
      run, first_dot, command, optimistic, modes>>

inputs == <<bank_forks, config>>

\* The locals of graph_forks before its first statement.
Locals ==
    /\ pc = "tips"
    /\ fork_slots = {}
    /\ fork_order = <<>>
    /\ last_votes = <<>>
    /\ vote_order = <<>>
    /\ slot_stake_and_vote_count = <<>>
    /\ dot = <<>>
    /\ styled_slots = {}
    /\ all_votes = <<>>
    /\ i = 1
    /\ bank = None
    /\ first = TRUE
    /\ absent_stake = 0
    /\ absent_votes = 0
    /\ lowest_last_vote_slot = U64_MAX
    /\ lowest_total_stake = 0

\* The graph command before graph_forks returns: no sink chosen, nothing printed.
NoSink ==
    /\ sink = None
    /\ written = None
    /\ result = None
    /\ stdout = <<>>
    /\ stderr = <<>>

\* No call of get_latest_optimistic_slots.
NoBlockstore ==
    /\ blockstore = <<>>
    /\ num_slots = 0
    /\ exclude_vote_only_slots = FALSE
    /\ latest_slot = None
    /\ slot_iter = None
    /\ optimistic_slots = <<>>

\* No call on a GraphVoteAccountMode but the default of the configuration.
NoMode ==
    /\ mode_string = "disabled"
    /\ mode_value = "Disabled"
    /\ parsed = None
    /\ mode_str = None
    /\ reparsed = None
    /\ enabled = None
    /\ default_mode = None

Init ==
    /\ IsBankForksInput(bank_forks)
    /\ config = DefaultGraphConfig
    /\ Locals
    /\ run = 1
    /\ first_dot = <<>>
    /\ extension = "dot"
    /\ NoSink
    /\ NoBlockstore
    /\ NoMode

(* --------------------------- the Bank accessors ------------------------ *)

frozen_banks == DOMAIN bank_forks

parent(b) == bank_forks[b].parent

RECURSIVE parents(_)
\* Bank::parents(): the ancestors of b, nearest first.
parents(b) ==
    IF parent(b) = None THEN <<>>
    ELSE <<Unwrap(parent(b))>> \o parents(Unwrap(parent(b)))

epoch(b) == b \div SlotsPerEpoch

vote_accounts(b) == bank_forks[b].vote_accounts

\* VoteState::default(): no votes, the default Pubkey.
default_vote_state == [node_pubkey |-> "default", votes |-> <<>>]

\* vote_account.vote_state().unwrap_or(&default_vote_state)
vote_state_of(account) ==
    IF account.vote_state = None THEN default_vote_state ELSE Unwrap(account.vote_state)

Put(f, k, v) == [x \in (DOMAIN f) \cup {k} |-> IF x = k THEN v ELSE f[x]]

(* ------------------------- lines 488-494: tips ------------------------- *)

\* Mutant of RemoveParents: the loop stops after the first bank.
RemoveParentsOfFirst(slots, order) == slots \ Range(parents(Head(order)))

RECURSIVE RemoveParents(_, _)
\* The loop of lines 490-494 over the banks in the order given.
RemoveParents(slots, order) ==
    IF order = <<>> THEN slots
    ELSE RemoveParents(slots \ Range(parents(Head(order))), Tail(order))

ResolveTips ==
    /\ pc = "tips"
    /\ \E order \in Orders(frozen_banks) :
          fork_slots' = RemoveParents(frozen_banks, order)
    /\ fork_order' \in Orders(fork_slots')
    /\ i' = 1
    /\ pc' = "last_votes"
    /\ UNCHANGED <<inputs, last_votes, vote_order, slot_stake_and_vote_count, dot,
                   styled_slots, all_votes, bank, first, absent_stake, absent_votes,
                   lowest_last_vote_slot, lowest_total_stake, run, first_dot,
                   command, optimistic, modes>>

(* --------------------- lines 496-522: last votes ----------------------- *)

\* Line 502-506: the sum of the stakes of every vote account of the bank.
total_stake_of(b) ==
    SumOver([k \in DOMAIN vote_accounts(b) |-> vote_accounts(b)[k].stake],
            DOMAIN vote_accounts(b))

\* Mutant of Replaces: the comparison is reversed.
ReplacesLower(entry_slot, last_vote_slot) == entry_slot > last_vote_slot

\* Mutant of Replaces: a candidate of equal slot replaces the stored record.
ReplacesOrEqual(entry_slot, last_vote_slot) == entry_slot <= last_vote_slot

\* Line 517: the stored record is replaced by the candidate.
Replaces(entry_slot, last_vote_slot) == entry_slot < last_vote_slot

\* Mutant of UpdateLastVote: a vote state without votes counts as a vote for slot 0.
UpdateLastVoteUnchecked(lv, account, total_stake) ==
    LET vote_state == vote_state_of(account)
        last_vote == IF vote_state.votes = <<>> THEN 0
                     ELSE vote_state.votes[Len(vote_state.votes)]
        candidate == [slot |-> last_vote, vote_state |-> vote_state,
                      stake |-> account.stake, total_stake |-> total_stake]
        key == vote_state.node_pubkey
        entry == IF key \in DOMAIN lv THEN lv[key] ELSE candidate
    IN  IF Replaces(entry.slot, last_vote) THEN Put(lv, key, candidate)
        ELSE Put(lv, key, entry)

\* Lines 508-520 for one vote account.
UpdateLastVote(lv, account, total_stake) ==
    LET vote_state == vote_state_of(account) IN
    IF vote_state.votes = <<>> THEN lv
    ELSE
        LET last_vote == vote_state.votes[Len(vote_state.votes)]
            candidate == [slot |-> last_vote, vote_state |-> vote_state,
                          stake |-> account.stake, total_stake |-> total_stake]
            key == vote_state.node_pubkey
            entry == IF key \in DOMAIN lv THEN lv[key] ELSE candidate
        IN  IF Replaces(entry.slot, last_vote) THEN Put(lv, key, candidate)
            ELSE Put(lv, key, entry)

RECURSIVE UpdateLastVotes(_, _, _, _)
\* The loop of lines 507-521 over the vote accounts of bank b in the order given.
UpdateLastVotes(lv, b, order, total_stake) ==
    IF order = <<>> THEN lv
    ELSE UpdateLastVotes(UpdateLastVote(lv, vote_accounts(b)[Head(order)], total_stake),
                         b, Tail(order), total_stake)

\* The position after the last-votes loop: a loop over no last vote is skipped.
AfterLastVotes(lv) == IF DOMAIN lv = {} THEN "begin_dot" ELSE "stake"

CollectLastVotes ==
    /\ pc = "last_votes"
    /\ LET fork_slot == fork_order[i] IN
       \E order \in Orders(DOMAIN vote_accounts(fork_slot)) :
          last_votes' = UpdateLastVotes(last_votes, fork_slot, order,
                                        total_stake_of(fork_slot))
    /\ IF i < Len(fork_order)
       THEN /\ i' = i + 1
            /\ UNCHANGED <<pc, vote_order>>
       ELSE /\ i' = 1
            /\ vote_order' \in Orders(DOMAIN last_votes')
            /\ pc' = AfterLastVotes(last_votes')
    /\ UNCHANGED <<inputs, fork_slots, fork_order, slot_stake_and_vote_count, dot,
                   styled_slots, all_votes, bank, first, absent_stake, absent_votes,
                   lowest_last_vote_slot, lowest_total_stake, run, first_dot,
                   command, optimistic, modes>>

(* ------------- lines 524-534: stake and votes of each slot ------------- *)

\* Mutant of CountedEntry: the stake is overwritten, not accumulated.
CountedEntryOverwrite(counts, lv) ==
    LET entry == IF lv.slot \in DOMAIN counts THEN counts[lv.slot]
                 ELSE [votes |-> 0, stake |-> 0, total_stake |-> lv.total_stake]
    IN  [votes |-> entry.votes + 1, stake |-> lv.stake,
         total_stake |-> entry.total_stake]

\* Mutant of CountedEntry: the vote count is set, not incremented.
CountedEntryOnce(counts, lv) ==
    LET entry == IF lv.slot \in DOMAIN counts THEN counts[lv.slot]
                 ELSE [votes |-> 0, stake |-> 0, total_stake |-> lv.total_stake]
    IN  [votes |-> 1, stake |-> entry.stake + lv.stake,
         total_stake |-> entry.total_stake]

\* Mutant of CountedEntry: the stake is added to both fields of the entry.
CountedEntryByStake(counts, lv) ==
    LET entry == IF lv.slot \in DOMAIN counts THEN counts[lv.slot]
                 ELSE [votes |-> 0, stake |-> 0, total_stake |-> lv.total_stake]
    IN  [votes |-> entry.votes + lv.stake, stake |-> entry.stake + lv.stake,
         total_stake |-> entry.total_stake]

\* Lines 528-532: the entry of the slot after one more last vote.
CountedEntry(counts, lv) ==
    LET entry == IF lv.slot \in DOMAIN counts THEN counts[lv.slot]
                 ELSE [votes |-> 0, stake |-> 0, total_stake |-> lv.total_stake]
    IN  [votes |-> entry.votes + 1, stake |-> entry.stake + lv.stake,
         total_stake |-> entry.total_stake]

\* Mutant of StakeAssertion: the assertion is removed.
StakeAssertionOff(entry, lv) == TRUE

\* Mutant of StakeAssertion: a slot may not be shared by two last votes.
StakeAssertionUnshared(entry, lv) == entry.votes = 1

\* Line 533: assert_eq!(entry.2, *total_stake)
StakeAssertion(entry, lv) == entry.total_stake = lv.total_stake

CountStakeAndVotes ==
    /\ pc = "stake"
    /\ LET lv == last_votes[vote_order[i]]
           entry == CountedEntry(slot_stake_and_vote_count, lv)
       IN  IF StakeAssertion(entry, lv)
           THEN /\ slot_stake_and_vote_count' =
                       Put(slot_stake_and_vote_count, lv.slot, entry)
                /\ IF i < Len(vote_order)
                   THEN i' = i + 1 /\ pc' = pc
                   ELSE i' = 1 /\ pc' = "begin_dot"
           ELSE /\ pc' = "panicked"
                /\ UNCHANGED <<slot_stake_and_vote_count, i>>
    /\ UNCHANGED <<inputs, fork_slots, fork_order, last_votes, vote_order, dot,
                   styled_slots, all_votes, bank, first, absent_stake, absent_votes,
                   lowest_last_vote_slot, lowest_total_stake, run, first_dot,
                   command, optimistic, modes>>

(* ------------------------ the statements of dot ------------------------ *)
\* One element of dot per pushed line. A record holds the values the format!
\* call interpolates; the leader, the transaction count and the conversions
\* to SOL and to a percentage are left out, the stake and total stake they
\* are computed from are kept.

Text(s) == [kind |-> "text", text |-> s]

\* Lines 560-588. annotation is the (votes, stake, total_stake) entry, if any.
NodeStmt(slot, annotation, filled) ==
    [kind |-> "node", slot |-> slot, epoch |-> epoch(slot),
     annotation |-> annotation, filled |-> filled]

\* Line 596.
DanglingStmt(slot) == [kind |-> "dangling", from |-> slot]

\* Lines 612-618.
EdgeStmt(child, parent_slot, link_label, penwidth) ==
    [kind |-> "edge", from |-> child, to |-> parent_slot,
     label |-> link_label.label, color |-> link_label.color, penwidth |-> penwidth]

\* Lines 674-681. history is the text of the vote_history local.
LastVoteNodeStmt(node_pubkey, stake, history) ==
    [kind |-> "last_vote_node", node_pubkey |-> node_pubkey, stake |-> stake,
     history |-> history]

\* Lines 683-691. to is the styled slot, or None for "...".
LastVoteEdgeStmt(node_pubkey, to) ==
    [kind |-> "last_vote_edge", node_pubkey |-> node_pubkey, to |-> to]

\* Lines 697-702.
AbsentStmt(votes, stake, total_stake) ==
    [kind |-> "absent", votes |-> votes, stake |-> stake, total_stake |-> total_stake]

\* Lines 709-721.
VoteNodeStmt(node_pubkey, vote_slot, vote_state) ==
    [kind |-> "vote_node", node_pubkey |-> node_pubkey, slot |-> vote_slot,
     history |-> vote_state.votes]

\* Lines 723-732.
VoteEdgeStmt(node_pubkey, vote_slot, to) ==
    [kind |-> "vote_edge", node_pubkey |-> node_pubkey, slot |-> vote_slot, to |-> to]

(* ---------------------- lines 536-542: the header ---------------------- *)

BeginDot ==
    /\ pc = "begin_dot"
    /\ dot' = <<Text("digraph {"), Text("  subgraph cluster_banks {"),
                Text("    style=invis")>>
    /\ styled_slots' = {}
    /\ all_votes' = <<>>
    /\ i' = 1
    /\ bank' = Some(fork_order[1])
    /\ first' = TRUE
    /\ pc' = "walk"
    /\ UNCHANGED <<inputs, fork_slots, fork_order, last_votes, vote_order,
                   slot_stake_and_vote_count, absent_stake, absent_votes,
                   lowest_last_vote_slot, lowest_total_stake, run, first_dot,
                   command, optimistic, modes>>

(* ---------------------- lines 543-625: the walk ------------------------ *)

\* Mutant of RecordVote: a later snapshot overwrites the one recorded.
RecordVoteOverwrite(av, account) ==
    LET vote_state == vote_state_of(account) IN
    IF vote_state.votes = <<>> THEN av
    ELSE
        LET last_vote == vote_state.votes[Len(vote_state.votes)]
            key == vote_state.node_pubkey
            validator_votes == IF key \in DOMAIN av THEN av[key] ELSE <<>>
        IN  Put(av, key, Put(validator_votes, last_vote, vote_state))

\* Lines 549-556 for one vote account of the bank walked.
RecordVote(av, account) ==
    LET vote_state == vote_state_of(account) IN
    IF vote_state.votes = <<>> THEN av
    ELSE
        LET last_vote == vote_state.votes[Len(vote_state.votes)]
            key == vote_state.node_pubkey
            validator_votes == IF key \in DOMAIN av THEN av[key] ELSE <<>>
        IN  IF last_vote \in DOMAIN validator_votes THEN Put(av, key, validator_votes)
            ELSE Put(av, key, Put(validator_votes, last_vote, vote_state))

RECURSIVE RecordVotes(_, _, _)
\* The loop of lines 548-557 over the vote accounts of bank b in the order given.
RecordVotes(av, b, order) ==
    IF order = <<>> THEN av
    ELSE RecordVotes(RecordVote(av, vote_accounts(b)[Head(order)]), b, Tail(order))

\* Lines 574-585: the votes and stake shown on the node of the slot.
Annotation(slot) ==
    IF slot \in DOMAIN slot_stake_and_vote_count
    THEN Some(slot_stake_and_vote_count[slot]) ELSE None

\* Mutant of Penwidth: an edge inside one epoch is drawn wide as well.
PenwidthSameEpoch(bank_epoch, parent_epoch) == IF bank_epoch >= parent_epoch THEN 5 ELSE 1

\* Lines 602-606.
Penwidth(bank_epoch, parent_epoch) == IF bank_epoch > parent_epoch THEN 5 ELSE 1

\* Mutant of LinkLabel: the distance itself is the gap count.
LinkLabelDistance(slot_distance) ==
    IF slot_distance > 1
    THEN [label |-> Some(slot_distance), color |-> "red"]
    ELSE [label |-> None, color |-> "blue"]

\* Mutant of LinkLabel: every edge is drawn as a direct edge.
LinkLabelDirect(slot_distance) == [label |-> None, color |-> "blue"]

\* Lines 607-611.
LinkLabel(slot_distance) ==
    IF slot_distance > 1
    THEN [label |-> Some(slot_distance - 1), color |-> "red"]
    ELSE [label |-> None, color |-> "blue"]

\* Mutant of NodePushed: the first flag of the walk is not looked at.
NodePushedFilled(b) ==
    IF b \notin styled_slots
    THEN <<NodeStmt(b, Annotation(b), TRUE)>> ELSE <<>>

\* Mutant of NodePushed: the node is pushed whether or not the slot is styled.
NodePushedAlways(b) == <<NodeStmt(b, Annotation(b), first)>>

\* Lines 559-590: the node of the bank, pushed unless the slot is styled.
NodePushed(b) ==
    IF b \notin styled_slots
    THEN <<NodeStmt(b, Annotation(b), first)>> ELSE <<>>

\* Mutant of LinkPushed: the slot of the parentless bank is not looked at.
LinkPushedFromGenesis(b) ==
    IF parent(b) = None
    THEN <<DanglingStmt(b)>>
    ELSE LET p == Unwrap(parent(b)) IN
         <<EdgeStmt(b, p, LinkLabel(b - p), Penwidth(epoch(b), epoch(p)))>>

\* Lines 593-622: the statement for the step from the bank to its parent.
LinkPushed(b) ==
    IF parent(b) = None
    THEN IF b > 0 THEN <<DanglingStmt(b)>> ELSE <<>>
    ELSE LET p == Unwrap(parent(b)) IN
         <<EdgeStmt(b, p, LinkLabel(b - p), Penwidth(epoch(b), epoch(p)))>>

\* The position after the walk: lines 629-632 done, a loop over no last vote skipped.
AfterWalk == IF DOMAIN last_votes = {} THEN "absent" ELSE "strafe"

\* Mutant of WalkStep: the walk does not move on to the parent.
WalkStepStay ==
    /\ pc = "walk"
    /\ LET b == Unwrap(bank) IN
       /\ \E order \in Orders(DOMAIN vote_accounts(b)) :
             all_votes' = RecordVotes(all_votes, b, order)
       /\ styled_slots' = styled_slots \cup {b}
       /\ IF parent(b) # None
          THEN /\ dot' = dot \o NodePushed(b) \o LinkPushed(b)
               /\ bank' = bank
               /\ first' = FALSE
               /\ UNCHANGED <<i, pc, absent_stake, absent_votes,
                              lowest_last_vote_slot, lowest_total_stake>>
          ELSE IF i < Len(fork_order)
          THEN /\ dot' = dot \o NodePushed(b) \o LinkPushed(b)
               /\ i' = i + 1
               /\ bank' = Some(fork_order[i + 1])
               /\ first' = TRUE
               /\ UNCHANGED <<pc, absent_stake, absent_votes,
                              lowest_last_vote_slot, lowest_total_stake>>
          ELSE /\ dot' = dot \o NodePushed(b) \o LinkPushed(b) \o <<Text("  }")>>
               /\ i' = 1
               /\ bank' = None
               /\ first' = FALSE
               /\ absent_stake' = 0
               /\ absent_votes' = 0
               /\ lowest_last_vote_slot' = U64_MAX
               /\ lowest_total_stake' = 0
               /\ pc' = AfterWalk
    /\ UNCHANGED <<inputs, fork_slots, fork_order, last_votes, vote_order,
                   slot_stake_and_vote_count, run, first_dot, command, optimistic, modes>>

\* One iteration of the loop of lines 547-623.
WalkStep ==
    /\ pc = "walk"
    /\ LET b == Unwrap(bank) IN
       /\ \E order \in Orders(DOMAIN vote_accounts(b)) :
             all_votes' = RecordVotes(all_votes, b, order)
       /\ styled_slots' = styled_slots \cup {b}
       /\ IF parent(b) # None
          THEN /\ dot' = dot \o NodePushed(b) \o LinkPushed(b)
               /\ bank' = parent(b)
               /\ first' = FALSE
               /\ UNCHANGED <<i, pc, absent_stake, absent_votes,
                              lowest_last_vote_slot, lowest_total_stake>>
          ELSE IF i < Len(fork_order)
          THEN /\ dot' = dot \o NodePushed(b) \o LinkPushed(b)
               /\ i' = i + 1
               /\ bank' = Some(fork_order[i + 1])
               /\ first' = TRUE
               /\ UNCHANGED <<pc, absent_stake, absent_votes,
                              lowest_last_vote_slot, lowest_total_stake>>
          ELSE /\ dot' = dot \o NodePushed(b) \o LinkPushed(b) \o <<Text("  }")>>
               /\ i' = 1
               /\ bank' = None
               /\ first' = FALSE
               /\ absent_stake' = 0
               /\ absent_votes' = 0
               /\ lowest_last_vote_slot' = U64_MAX
               /\ lowest_total_stake' = 0
               /\ pc' = AfterWalk
    /\ UNCHANGED <<inputs, fork_slots, fork_order, last_votes, vote_order,
                   slot_stake_and_vote_count, run, first_dot, command, optimistic, modes>>

(* ------------------ lines 627-693: the last-vote links ----------------- *)

\* Mutant of RemoveLastVote: the entry keeps the last vote slot.
RemoveLastVoteNot(av, node_pubkey, last_vote_slot) == av

\* Lines 634-636: the last vote slot leaves the validator's entry of all_votes.
RemoveLastVote(av, node_pubkey, last_vote_slot) ==
    IF node_pubkey \in DOMAIN av
    THEN [av EXCEPT ![node_pubkey] =
            [s \in (DOMAIN av[node_pubkey]) \ {last_vote_slot} |-> av[node_pubkey][s]]]
    ELSE av

\* Mutant of maybe_styled: the slot is looked up among the tips.
maybe_styled_tip(last_vote_slot) ==
    IF last_vote_slot \in fork_slots THEN Some(last_vote_slot) ELSE None

\* Line 638: styled_slots.get(last_vote_slot)
maybe_styled(last_vote_slot) ==
    IF last_vote_slot \in styled_slots THEN Some(last_vote_slot) ELSE None

\* Mutant of IsLower: the comparison is reversed.
IsHigher(last_vote_slot, lowest) == last_vote_slot > lowest

\* Line 640.
IsLower(last_vote_slot, lowest) == last_vote_slot < lowest

\* Lines 649-673: the vote_history text.
VoteHistory(vote_state) ==
    IF config.vote_account_mode = "WithHistory"
    THEN [form |-> "vote history", slots |-> vote_state.votes]
    ELSE [form |-> "last vote slot",
          slots |-> IF vote_state.votes = <<>> THEN <<>>
                    ELSE <<vote_state.votes[Len(vote_state.votes)]>>]

\* Lines 446-448: GraphVoteAccountMode::is_enabled
is_enabled(mode) == mode # "Disabled"

\* Mutant of LastVotePushed: the mode is not consulted.
LastVotePushedAlways(node_pubkey, lv) ==
    <<LastVoteNodeStmt(node_pubkey, lv.stake, VoteHistory(lv.vote_state)),
      LastVoteEdgeStmt(node_pubkey, maybe_styled(lv.slot))>>

\* Lines 648-692: the two statements of a validator, when the mode is enabled.
LastVotePushed(node_pubkey, lv) ==
    IF is_enabled(config.vote_account_mode)
    THEN <<LastVoteNodeStmt(node_pubkey, lv.stake, VoteHistory(lv.vote_state)),
           LastVoteEdgeStmt(node_pubkey, maybe_styled(lv.slot))>>
    ELSE <<>>

\* One iteration of the loop of lines 633-693.
StrafeLastVote ==
    /\ pc = "strafe"
    /\ LET node_pubkey == vote_order[i]
           lv == last_votes[node_pubkey]
       IN  /\ all_votes' = RemoveLastVote(all_votes, node_pubkey, lv.slot)
           /\ IF maybe_styled(lv.slot) = None
              THEN /\ IF IsLower(lv.slot, lowest_last_vote_slot)
                      THEN /\ lowest_last_vote_slot' = lv.slot
                           /\ lowest_total_stake' = lv.total_stake
                      ELSE UNCHANGED <<lowest_last_vote_slot, lowest_total_stake>>
                   /\ absent_votes' = absent_votes + 1
                   /\ absent_stake' = absent_stake + lv.stake
              ELSE UNCHANGED <<absent_votes, absent_stake, lowest_last_vote_slot,
                               lowest_total_stake>>
           /\ dot' = dot \o LastVotePushed(node_pubkey, lv)
    /\ IF i < Len(vote_order)
       THEN i' = i + 1 /\ pc' = pc
       ELSE i' = 1 /\ pc' = "absent"
    /\ UNCHANGED <<inputs, fork_slots, fork_order, last_votes, vote_order,
                   slot_stake_and_vote_count, styled_slots, bank, first, run,
                   first_dot, command, optimistic, modes>>

(* ------------------ lines 695-703: the absent summary ------------------ *)

AnnotateAbsent ==
    /\ pc = "absent"
    /\ dot' = IF absent_votes > 0
              THEN Append(dot, AbsentStmt(absent_votes, absent_stake, lowest_total_stake))
              ELSE dot
    /\ pc' = "all_votes"
    /\ UNCHANGED <<inputs, fork_slots, fork_order, last_votes, vote_order,
                   slot_stake_and_vote_count, styled_slots, all_votes, i, bank, first,
                   absent_stake, absent_votes, lowest_last_vote_slot,
                   lowest_total_stake, run, first_dot, command, optimistic, modes>>

(* ------------- lines 705-738: all votes, and the closing brace --------- *)

RECURSIVE ValidatorVotesPushed(_, _, _)
\* The loop of lines 708-733 over the votes of one validator in the order given.
ValidatorVotesPushed(node_pubkey, validator_votes, order) ==
    IF order = <<>> THEN <<>>
    ELSE LET vote_slot == Head(order) IN
         <<VoteNodeStmt(node_pubkey, vote_slot, validator_votes[vote_slot]),
           VoteEdgeStmt(node_pubkey, vote_slot, maybe_styled(vote_slot))>>
         \o ValidatorVotesPushed(node_pubkey, validator_votes, Tail(order))

RECURSIVE AllVotesPushed(_, _)
\* The loop of lines 707-734 over the validators in the order given.
AllVotesPushed(order, slot_orders) ==
    IF order = <<>> THEN <<>>
    ELSE ValidatorVotesPushed(Head(order), all_votes[Head(order)], slot_orders[Head(order)])
         \o AllVotesPushed(Tail(order), slot_orders)

\* The orders in which the inner maps of all_votes may iterate.
SlotOrders ==
    {so \in [DOMAIN all_votes ->
                UNION {Orders(DOMAIN all_votes[n]) : n \in DOMAIN all_votes}] :
        \A n \in DOMAIN all_votes : so[n] \in Orders(DOMAIN all_votes[n])}

RenderAllVotes ==
    /\ pc = "all_votes"
    /\ IF config.include_all_votes
       THEN \E order \in Orders(DOMAIN all_votes) : \E slot_orders \in SlotOrders :
               dot' = dot \o AllVotesPushed(order, slot_orders) \o <<Text("}")>>
       ELSE dot' = Append(dot, Text("}"))
    /\ pc' = "done"
    /\ UNCHANGED <<inputs, fork_slots, fork_order, last_votes, vote_order,
                   slot_stake_and_vote_count, styled_slots, all_votes, i, bank, first,
                   absent_stake, absent_votes, lowest_last_vote_slot,
                   lowest_total_stake, run, first_dot, command, optimistic, modes>>

(* --------------------- a second run on the same input ------------------ *)

\* graph_forks is called again with the same bank_forks and config.
Rerun ==
    /\ pc = "done"
    /\ run = 1
    /\ run' = 2
    /\ first_dot' = dot
    /\ pc' = "tips"
    /\ fork_slots' = {}
    /\ fork_order' = <<>>
    /\ last_votes' = <<>>
    /\ vote_order' = <<>>
    /\ slot_stake_and_vote_count' = <<>>
    /\ dot' = <<>>
    /\ styled_slots' = {}
    /\ all_votes' = <<>>
    /\ i' = 1
    /\ bank' = None
    /\ first' = TRUE
    /\ absent_stake' = 0
    /\ absent_votes' = 0
    /\ lowest_last_vote_slot' = U64_MAX
    /\ lowest_total_stake' = 0
    /\ UNCHANGED <<inputs, command, optimistic, modes>>

(* ---------------- lines 432-479: GraphVoteAccountMode ------------------ *)

\* Lines 440-442: the strings of the three modes.
DISABLED == "disabled"
LAST_ONLY == "last-only"
WITH_HISTORY == "with-history"

\* Result<GraphVoteAccountMode, GraphVoteAccountModeError>
OkMode(m) == [ok |-> TRUE, value |-> m]
ErrMode(s) == [ok |-> FALSE, err |-> s]

\* Mutant of as_ref: LastOnly is spelt with an underscore.
as_ref_underscore(m) ==
    CASE m = "Disabled" -> DISABLED
      [] m = "LastOnly" -> "last_only"
      [] m = "WithHistory" -> WITH_HISTORY

\* Lines 451-459: AsRef<str>
as_ref(m) ==
    CASE m = "Disabled" -> DISABLED
      [] m = "LastOnly" -> LAST_ONLY
      [] m = "WithHistory" -> WITH_HISTORY

\* Lines 461-465: Default
default == "Disabled"

\* Lines 469-479: FromStr
from_str(s) ==
    CASE s = DISABLED -> OkMode("Disabled")
      [] s = LAST_ONLY -> OkMode("LastOnly")
      [] s = WITH_HISTORY -> OkMode("WithHistory")
      [] OTHER -> ErrMode(s)

\* The strings given to from_str: the mode strings, and strings near them.
ModeStrings ==
    {DISABLED, LAST_ONLY, WITH_HISTORY, "", "Disabled", "LastOnly", "last_only",
     "lastonly", "with-history ", "WITH-HISTORY", "enabled"}

ModeFrame ==
    UNCHANGED <<inputs, pc, fork_slots, fork_order, last_votes, vote_order,
                slot_stake_and_vote_count, dot, styled_slots, all_votes, i, bank,
                first, absent_stake, absent_votes, lowest_last_vote_slot,
                lowest_total_stake, run, first_dot, command, optimistic,
                mode_string, mode_value>>

\* from_str(mode_string)
FromStr ==
    /\ parsed = None
    /\ parsed' = Some(from_str(mode_string))
    /\ UNCHANGED <<mode_str, reparsed, enabled, default_mode>>
    /\ ModeFrame

\* mode_value.as_ref()
AsRef ==
    /\ mode_str = None
    /\ mode_str' = Some(as_ref(mode_value))
    /\ UNCHANGED <<parsed, reparsed, enabled, default_mode>>
    /\ ModeFrame

\* from_str(mode_value.as_ref())
FromStrOfAsRef ==
    /\ mode_str # None
    /\ reparsed = None
    /\ reparsed' = Some(from_str(Unwrap(mode_str)))
    /\ UNCHANGED <<parsed, mode_str, enabled, default_mode>>
    /\ ModeFrame

\* mode_value.is_enabled()
IsEnabled ==
    /\ enabled = None
    /\ enabled' = Some(is_enabled(mode_value))
    /\ UNCHANGED <<parsed, mode_str, reparsed, default_mode>>
    /\ ModeFrame

\* GraphVoteAccountMode::default()
Default ==
    /\ default_mode = None
    /\ default_mode' = Some(default)
    /\ UNCHANGED <<parsed, mode_str, reparsed, enabled>>
    /\ ModeFrame

(* ------------- main.rs 2833-2848: the sink of the graph command -------- *)

\* Path::extension() of output_file, as far as main tells extensions apart;
\* the empty string stands for a file name without extension.
Extensions == {"pdf", "png", "dot", ""}

\* io::Result<()>
Ok == Some([ok |-> TRUE, err |-> ""])

Err(err) == Some([ok |-> FALSE, err |-> err])

\* Mutant of SinkOf: every extension but pdf goes to the file.
SinkOfPdfOnly(ext) ==
    IF ext = "pdf" THEN [via |-> "render_dot", output_format |-> "pdf"]
    ELSE [via |-> "File::create", output_format |-> ""]

\* Lines 2835-2843: the sink the extension selects.
SinkOf(ext) ==
    IF ext = "pdf" THEN [via |-> "render_dot", output_format |-> "pdf"]
    ELSE IF ext = "png" THEN [via |-> "render_dot", output_format |-> "png"]
    ELSE [via |-> "File::create", output_format |-> ""]

\* Lines 2835-2843: graph_forks has returned, main hands the document to a sink.
ChooseSink ==
    /\ pc = "done"
    /\ sink = None
    /\ sink' = Some(SinkOf(extension))
    /\ pc' = IF SinkOf(extension).via = "render_dot" THEN "spawn" ELSE "create"
    /\ UNCHANGED <<inputs, fork_slots, fork_order, last_votes, vote_order,
                   slot_stake_and_vote_count, dot, styled_slots, all_votes, i, bank,
                   first, absent_stake, absent_votes, lowest_last_vote_slot,
                   lowest_total_stake, run, first_dot, extension, written, result,
                   stdout, stderr, optimistic, modes>>

\* What no step of the sink assigns.
SinkFrame ==
    UNCHANGED <<inputs, fork_slots, fork_order, last_votes, vote_order,
                slot_stake_and_vote_count, dot, styled_slots, all_votes, i, bank,
                first, absent_stake, absent_votes, lowest_last_vote_slot,
                lowest_total_stake, run, first_dot, extension, sink, optimistic, modes>>

\* Lines 409-417 of render_dot: Command::spawn, which may fail.
SpawnDot ==
    /\ pc = "spawn"
    /\ \E spawned \in BOOLEAN :
          IF spawned
          THEN /\ pc' = "stdin"
               /\ UNCHANGED <<result, stderr>>
          ELSE /\ stderr' = Append(stderr, [text |-> "Failed to spawn dot", err |-> "spawn"])
               /\ result' = Err("spawn")
               /\ pc' = "report"
    /\ UNCHANGED <<written, stdout>>
    /\ SinkFrame

\* Lines 419-420 of render_dot: the document goes to the stdin of the child.
WriteStdin ==
    /\ pc = "stdin"
    /\ \E wrote \in BOOLEAN :
          IF wrote
          THEN /\ written' = Some(dot)
               /\ pc' = "wait"
               /\ UNCHANGED result
          ELSE /\ result' = Err("write_all")
               /\ pc' = "report"
               /\ UNCHANGED written
    /\ UNCHANGED <<stdout, stderr>>
    /\ SinkFrame

\* Lines 422-429 of render_dot: wait_with_output and the exit status.
WaitDot ==
    /\ pc = "wait"
    /\ \E outcome \in {"success", "wait_with_output", "dot failed with error"} :
          result' = IF outcome = "success" THEN Ok ELSE Err(outcome)
    /\ pc' = "report"
    /\ UNCHANGED <<written, stdout, stderr>>
    /\ SinkFrame

\* Lines 2840-2841: File::create(..).and_then(write_all).
WriteFile ==
    /\ pc = "create"
    /\ \E outcome \in {"success", "File::create", "write_all"} :
          /\ result' = IF outcome = "success" THEN Ok ELSE Err(outcome)
          /\ written' = IF outcome = "success" THEN Some(dot) ELSE None
    /\ pc' = "report"
    /\ UNCHANGED <<stdout, stderr>>
    /\ SinkFrame

\* Mutant of Reported: the error of the sink is dropped.
ReportedNothing(res) == <<>>

\* Line 2847: what main prints on stderr for the result of the sink.
Reported(res) ==
    IF Unwrap(res).ok THEN <<>>
    ELSE <<[text |-> "Unable to write", err |-> Unwrap(res).err]>>

\* Lines 2845-2848: the result is printed and the graph command returns.
Report ==
    /\ pc = "report"
    /\ stdout' = IF Unwrap(result).ok THEN Append(stdout, [text |-> "Wrote"]) ELSE stdout
    /\ stderr' = stderr \o Reported(result)
    /\ pc' = "returned"
    /\ UNCHANGED <<written, result>>
    /\ SinkFrame

(* ------------- main.rs 985-1032: get_latest_optimistic_slots ----------- *)

\* SlotMeta::parent_slot of the slots that have a meta: a lower slot, or None.
SlotMetas ==
    UNION {{m \in [S -> {None} \cup {Some(q) : q \in Slots}] :
                \A s \in S : \A q \in m[s] : q < s} :
           S \in SUBSET Slots}

\* A Blockstore: the slot metas, the slots marked optimistically confirmed
\* (each has a meta) and the slots holding a transaction that is not a vote.
Blockstores ==
    {bs \in [meta : SlotMetas, optimistic : SUBSET Slots, nonvote : SUBSET Slots] :
        bs.optimistic \subseteq DOMAIN bs.meta}

\* Blockstore::get_latest_optimistic_slots(1).pop(): the highest marked slot.
LatestOptimistic(bs) ==
    IF bs.optimistic = {} THEN None
    ELSE Some(CHOOSE s \in bs.optimistic : \A q \in bs.optimistic : q <= s)

\* AncestorIterator::next: the slot after slot, its parent by the slot meta.
NextAncestor(bs, slot) ==
    IF slot # 0 /\ slot \in DOMAIN bs.meta THEN bs.meta[slot] ELSE None

\* Lines 968-978: slot_contains_nonvote_tx.
slot_contains_nonvote_tx(bs, slot) == slot \in bs.nonvote

\* Lines 1011-1022: the OptimisticSlotInfo the map closure builds for a slot.
OptimisticSlotInfo(bs, slot) ==
    [slot |-> slot,
     hash_and_timestamp_opt |-> IF slot \in bs.optimistic THEN Some("hash") ELSE None,
     contains_nonvote |-> slot_contains_nonvote_tx(bs, slot)]

\* Mutant of Kept: only the slots marked in the blockstore are kept.
KeptIfMarked(info, exclude) == info.hash_and_timestamp_opt # None

\* Lines 1024-1031: the filter between the iterator and take(num_slots).
Kept(info, exclude) == exclude => info.contains_nonvote

\* What get_latest_optimistic_slots does not touch.
NoGraph ==
    /\ bank_forks = <<>>
    /\ config = DefaultGraphConfig
    /\ fork_slots = {}
    /\ fork_order = <<>>
    /\ last_votes = <<>>
    /\ vote_order = <<>>
    /\ slot_stake_and_vote_count = <<>>
    /\ dot = <<>>
    /\ styled_slots = {}
    /\ all_votes = <<>>
    /\ i = 1
    /\ bank = None
    /\ first = TRUE
    /\ absent_stake = 0
    /\ absent_votes = 0
    /\ lowest_last_vote_slot = U64_MAX
    /\ lowest_total_stake = 0
    /\ run = 1
    /\ first_dot = <<>>
    /\ extension = "dot"
    /\ sink = None
    /\ written = None
    /\ result = None
    /\ stdout = <<>>

OptimisticFrame ==
    UNCHANGED <<inputs, fork_slots, fork_order, last_votes, vote_order,
                slot_stake_and_vote_count, dot, styled_slots, all_votes, i, bank,
                first, absent_stake, absent_votes, lowest_last_vote_slot,
                lowest_total_stake, run, first_dot, extension, sink, written, result,
                stdout, blockstore, num_slots, exclude_vote_only_slots, modes>>

\* Lines 1000-1009: the latest optimistically confirmed slot, if there is one.
LookupLatest ==
    /\ pc = "latest"
    /\ IF LatestOptimistic(blockstore) = None
       THEN /\ stderr' = Append(stderr,
                   [text |-> "Blockstore does not contain any optimistically confirmed slots"])
            /\ pc' = "collected"
            /\ UNCHANGED <<latest_slot, slot_iter>>
       ELSE /\ latest_slot' = LatestOptimistic(blockstore)
            /\ slot_iter' = LatestOptimistic(blockstore)
            /\ pc' = "ancestors"
            /\ UNCHANGED stderr
    /\ UNCHANGED optimistic_slots
    /\ OptimisticFrame

\* Lines 1011-1031: take(num_slots) pulls one more slot from the iterator.
TakeAncestor ==
    /\ pc = "ancestors"
    /\ Len(optimistic_slots) < num_slots
    /\ slot_iter # None
    /\ LET info == OptimisticSlotInfo(blockstore, Unwrap(slot_iter)) IN
       optimistic_slots' = IF Kept(info, exclude_vote_only_slots)
                           THEN Append(optimistic_slots, info)
                           ELSE optimistic_slots
    /\ slot_iter' = NextAncestor(blockstore, Unwrap(slot_iter))
    /\ UNCHANGED <<pc, latest_slot, stderr>>
    /\ OptimisticFrame

\* Lines 1024-1031: collect() ends when take has num_slots or the iterator is over.
CollectSlots ==
    /\ pc = "ancestors"
    /\ Len(optimistic_slots) >= num_slots \/ slot_iter = None
    /\ pc' = "collected"
    /\ UNCHANGED <<latest_slot, slot_iter, optimistic_slots, stderr>>
    /\ OptimisticFrame

(* --------------------------- specifications ---------------------------- *)

Next ==
    \/ ResolveTips
    \/ CollectLastVotes
    \/ CountStakeAndVotes
    \/ BeginDot
    \/ WalkStep
    \/ StrafeLastVote
    \/ AnnotateAbsent
    \/ RenderAllVotes

Spec == Init /\ [][Next]_vars

NextTwice == Next \/ Rerun

\* Two runs of graph_forks on one input.
SpecTwice == Init /\ [][NextTwice]_vars

\* graph_forks is sequential code: while a statement is left, it is executed.
SpecFair == Init /\ [][Next]_vars /\ WF_vars(Next)

\* Vote states with a history: no vote, or one or two votes for bank slots, in
\* slot order.
HistorySeqs ==
    {<<>>} \cup {<<s>> : s \in Slots} \cup {h \in [1..2 -> Slots] : h[1] < h[2]}

HistoryAccounts ==
    [stake : {CHOOSE stake \in Stakes : TRUE},
     vote_state : {None} \cup {Some(vs) : vs \in [node_pubkey : Nodes, votes : HistorySeqs]}]

\* Every BankForks whose vote states may hold two votes.
IsHistoryInput(bf) ==
    \E S \in (SUBSET Slots) \ {{}} : \E held \in HeldKeys :
        \E p \in Trees(S), home \in Homes(held, S), acct \in [held -> HistoryAccounts] :
            /\ FirstIdentity(held, acct)
            /\ bf = MakeBankForks(S, p, home, acct)

\* graph_forks on vote states with a history, the vote accounts drawn with
\* their history, with and without the other votes.
InitHistory ==
    /\ IsHistoryInput(bank_forks)
    /\ config \in {c \in GraphConfigs : c.vote_account_mode = "WithHistory"}
    /\ Locals
    /\ run = 1
    /\ first_dot = <<>>
    /\ extension = "dot"
    /\ NoSink
    /\ NoBlockstore
    /\ NoMode

SpecHistory == InitHistory /\ [][Next]_vars

\* The vote accounts of the concrete scenario: V1, V2 and V3, total stake 300.
ScenarioVoteAccounts ==
    [k \in {"k1", "k2", "k3"} |->
        IF k = "k1"
        THEN [stake |-> 100, vote_state |-> Some([node_pubkey |-> "v1", votes |-> <<10>>])]
        ELSE IF k = "k2"
        THEN [stake |-> 150, vote_state |-> Some([node_pubkey |-> "v2", votes |-> <<8>>])]
        ELSE [stake |-> 50, vote_state |-> Some([node_pubkey |-> "v3", votes |-> <<20>>])]]

\* The chains of the concrete scenario: 0, 5, 10, 12 and 0, 5, 8.
ScenarioParents ==
    [b \in {0, 5, 8, 10, 12} |->
        IF b = 0 THEN None
        ELSE IF b = 5 THEN Some(0)
        ELSE IF b = 12 THEN Some(10)
        ELSE Some(5)]

ScenarioBankForks ==
    [b \in DOMAIN ScenarioParents |->
        [parent |-> ScenarioParents[b], vote_accounts |-> ScenarioVoteAccounts]]

\* The graph command on the ledger of the concrete scenario, under any
\* configuration and any output file.
InitCommand ==
    /\ bank_forks = ScenarioBankForks
    /\ config \in GraphConfigs
    /\ Locals
    /\ run = 1
    /\ first_dot = <<>>
    /\ extension \in Extensions
    /\ NoSink
    /\ NoBlockstore
    /\ NoMode

NextCommand ==
    \/ Next
    \/ ChooseSink
    \/ SpawnDot
    \/ WriteStdin
    \/ WaitDot
    \/ WriteFile
    \/ Report

SpecCommand == InitCommand /\ [][NextCommand]_vars

\* get_latest_optimistic_slots on every blockstore over the slots.
InitOptimistic ==
    /\ NoGraph
    /\ pc = "latest"
    /\ blockstore \in Blockstores
    /\ num_slots \in 0..(MaxSlot + 2)
    /\ exclude_vote_only_slots \in BOOLEAN
    /\ latest_slot = None
    /\ slot_iter = None
    /\ optimistic_slots = <<>>
    /\ stderr = <<>>
    /\ NoMode

NextOptimistic ==
    \/ LookupLatest
    \/ TakeAncestor
    \/ CollectSlots

SpecOptimistic == InitOptimistic /\ [][NextOptimistic]_vars

\* The calls on GraphVoteAccountMode, on every mode and every string.
InitMode ==
    /\ NoGraph
    /\ pc = "mode"
    /\ stderr = <<>>
    /\ NoBlockstore
    /\ mode_string \in ModeStrings
    /\ mode_value \in GraphVoteAccountModes
    /\ parsed = None
    /\ mode_str = None
    /\ reparsed = None
    /\ enabled = None
    /\ default_mode = None

NextMode ==
    \/ FromStr
    \/ AsRef
    \/ FromStrOfAsRef
    \/ IsEnabled
    \/ Default

SpecMode == InitMode /\ [][NextMode]_vars

(* ------------------------------ the claims ----------------------------- *)

RECURSIVE IsAncestor(_, _)
\* a is a strict ancestor of b by the parent references of the input.
IsAncestor(a, b) ==
    /\ bank_forks[b].parent # {}
    /\ \/ a \in bank_forks[b].parent
       \/ IsAncestor(a, CHOOSE q \in bank_forks[b].parent : TRUE)

\* The tip set is resolved.
TipsResolved == pc # "tips"

\* The statements of a kind in a document.
StmtsOf(d, kind) == {j \in 1..Len(d) : d[j].kind = kind}

\* The rendered node set: the slots of the node statements.
RenderedSlots == {dot[j].slot : j \in StmtsOf(dot, "node")}

\* The walk is over: every tip's chain has been emitted.
Walked == pc \in {"strafe", "absent", "all_votes", "done"}

\* Every LastVote has been classified.
Classified == pc \in {"absent", "all_votes", "done"}

\* The last votes are collected.
Collected == pc \in {"stake", "begin_dot", "walk", "strafe", "absent", "all_votes", "done"}

\* The validators with a LastVote at the slot.
VotersAt(slot) == {v \in DOMAIN last_votes : last_votes[v].slot = slot}

StakeOf(V) == SumOver([v \in DOMAIN last_votes |-> last_votes[v].stake], V)

\* C1: no member of the resolved tip set is an ancestor of another member, and
\* every chain state that is not a tip is an ancestor of at least one tip.
C1_TipResolution ==
    TipsResolved =>
        /\ fork_slots \subseteq DOMAIN bank_forks
        /\ \A a, b \in fork_slots : ~IsAncestor(a, b)
        /\ \A s \in (DOMAIN bank_forks) \ fork_slots :
              \E t \in fork_slots : IsAncestor(s, t)

\* C1 witness: two tips and a chain state that is an ancestor of both are resolved.
C1_Witness ==
    /\ pc = "last_votes"
    /\ \E a, b \in fork_slots : a # b /\ \E s \in DOMAIN bank_forks :
          s \notin fork_slots /\ IsAncestor(s, a) /\ IsAncestor(s, b)

\* C2: the walk emits exactly one node statement per distinct slot reachable
\* from a tip: no slot has two node statements, every node statement is a tip
\* or an ancestor of a tip, and after the walk every such slot has its node.
C2_NodeDeduplication ==
    /\ \A j, k \in StmtsOf(dot, "node") : dot[j].slot = dot[k].slot => j = k
    /\ \A s \in RenderedSlots :
          s \in fork_slots \/ \E t \in fork_slots : IsAncestor(s, t)
    /\ Walked =>
          \A s \in DOMAIN bank_forks :
              (s \in fork_slots \/ \E t \in fork_slots : IsAncestor(s, t))
                  => s \in RenderedSlots

\* C2 witness: two tips with a common ancestor have been walked to the end.
C2_Witness ==
    /\ pc = "done"
    /\ \E a, b \in fork_slots : a # b /\ \E s \in RenderedSlots :
          IsAncestor(s, a) /\ IsAncestor(s, b)

\* The stake annotated on the rendered nodes.
AnnotatedStake ==
    LET N == {j \in StmtsOf(dot, "node") : dot[j].annotation # {}} IN
    SumOver([j \in N |-> (CHOOSE e \in dot[j].annotation : TRUE).stake], N)

\* The votes annotated on the rendered nodes.
AnnotatedVotes ==
    LET N == {j \in StmtsOf(dot, "node") : dot[j].annotation # {}} IN
    SumOver([j \in N |-> (CHOOSE e \in dot[j].annotation : TRUE).votes], N)

C4_Determinism == (pc = "done" /\ run = 2) => dot = first_dot

\* C5: an edge statement goes from a bank to its parent; with slot distance 1 it
\* has no gap label and is blue, with distance d > 1 its label is d - 1 and it
\* is red.
C5_EdgeLabeling ==
    \A j \in StmtsOf(dot, "edge") :
        LET e == dot[j] IN
        /\ e.to \in bank_forks[e.from].parent
        /\ e.from - e.to = 1 => (e.label = {} /\ e.color = "blue")
        /\ e.from - e.to > 1 => (e.label = {e.from - e.to - 1} /\ e.color = "red")

\* C5 witness: a document with a direct edge and a skipped-slot edge.
C5_Witness ==
    /\ \E j \in StmtsOf(dot, "edge") : dot[j].from - dot[j].to = 1
    /\ \E j \in StmtsOf(dot, "edge") : dot[j].from - dot[j].to > 1

\* The last votes of validator v found in the vote accounts of the banks B:
\* the candidates (slot, VoteState, stake, total stake) of lines 510-516.
Candidates(B, v) ==
    UNION {UNION {{[slot |-> vs.votes[Len(vs.votes)], vote_state |-> vs,
                    stake |-> bank_forks[b].vote_accounts[k].stake,
                    total_stake |->
                        SumOver([x \in DOMAIN bank_forks[b].vote_accounts |->
                                    bank_forks[b].vote_accounts[x].stake],
                                DOMAIN bank_forks[b].vote_accounts)] :
                     vs \in {x \in bank_forks[b].vote_accounts[k].vote_state :
                                x.node_pubkey = v /\ x.votes # <<>>}} :
                  k \in DOMAIN bank_forks[b].vote_accounts} :
           b \in B}

\* The record kept for v is the candidate of highest slot among the banks B.
KeepsHighest(B, v) ==
    Candidates(B, v) # {} =>
        /\ v \in DOMAIN last_votes
        /\ last_votes[v] \in Candidates(B, v)
        /\ \A c \in Candidates(B, v) : c.slot <= last_votes[v].slot

\* C6 as stated: the record kept has the highest final-vote slot among all
\* chain states of the input in which the validator has voted.
C6_HighestOfAllBanks ==
    Collected => \A v \in Nodes : KeepsHighest(DOMAIN bank_forks, v)

\* C6 amended: the record kept has the highest final-vote slot among the fork
\* tips in which the validator has voted.
C6_HighestOfTips ==
    Collected => \A v \in Nodes : KeepsHighest(fork_slots, v)

\* C6 witness: a validator has voted in two tips, at different slots.
C6_Witness ==
    /\ pc = "done"
    /\ \E v \in Nodes : \E c, d \in Candidates(fork_slots, v) : c.slot < d.slot

\* graph_forks went past the assertion of line 533 for every last vote.
PastAssertion == pc \in {"begin_dot", "walk", "strafe", "absent", "all_votes", "done"}

AbsentVoters == {v \in DOMAIN last_votes : last_votes[v].slot \notin RenderedSlots}

\* C8: the absent-vote counter is the number of validators whose LastVote slot
\* is not rendered, and the absent stake is the sum of their stakes.
C8_AbsentAccounting ==
    Classified =>
        /\ absent_votes = Cardinality(AbsentVoters)
        /\ absent_stake = StakeOf(AbsentVoters)
        /\ \A j \in StmtsOf(dot, "absent") :
              /\ dot[j].votes = Cardinality(AbsentVoters)
              /\ dot[j].stake = StakeOf(AbsentVoters)

\* C8 witness: one validator's last vote is absent, another's is rendered.
C8_Witness ==
    /\ pc = "done"
    /\ AbsentVoters # {}
    /\ AbsentVoters # DOMAIN last_votes

\* C9: when a LastVote is absent, the denominator is the total stake of the
\* absent LastVote of lowest slot.
C9_LowestAbsentDenominator ==
    (Classified /\ AbsentVoters # {}) =>
        \A v \in AbsentVoters :
            (\A w \in AbsentVoters : last_votes[v].slot <= last_votes[w].slot)
                => lowest_total_stake = last_votes[v].total_stake

\* C10: the node at slot S shows the number and the stake of the validators
\* whose LastVote slot is S, and nothing when there is none.
C10_NodeSummary ==
    \A j \in StmtsOf(dot, "node") :
        LET V == VotersAt(dot[j].slot) IN
        IF V = {} THEN dot[j].annotation = {}
        ELSE /\ dot[j].annotation # {}
             /\ \A e \in dot[j].annotation :
                   e.votes = Cardinality(V) /\ e.stake = StakeOf(V)

\* C10 witness: a node annotated with two votes and a node with no annotation.
C10_Witness ==
    /\ \E j \in StmtsOf(dot, "node") : \E e \in dot[j].annotation : e.votes = 2
    /\ \E j \in StmtsOf(dot, "node") : dot[j].annotation = {}

(* ------------------- C11, C12: the concrete scenario ------------------- *)

\* The annotations of the node statements of slot b.
AnnotationsOf(b) == {dot[j].annotation : j \in {x \in StmtsOf(dot, "node") : dot[x].slot = b}}

\* C11: on the concrete scenario the tips are 12 and 8, the nodes rendered are
\* 0, 5, 8, 10 and 12, node 10 shows one vote with stake 100, node 8 one vote
\* with stake 150, and the absent summary shows one vote with stake 50 out of 300.
C11_ScenarioVotes ==
    /\ TipsResolved => fork_slots = {12, 8}
    /\ pc = "done" =>
          /\ RenderedSlots = {0, 5, 8, 10, 12}
          /\ \A a \in AnnotationsOf(10) : \E e \in a : e.votes = 1 /\ e.stake = 100
          /\ \A a \in AnnotationsOf(8) : \E e \in a : e.votes = 1 /\ e.stake = 150
          /\ {dot[j] : j \in StmtsOf(dot, "absent")} = {AbsentStmt(1, 50, 300)}

\* C11 witness: the document of the scenario is complete, with its nodes and
\* its absent summary.
C11_Witness ==
    /\ pc = "done"
    /\ bank_forks = ScenarioBankForks
    /\ AnnotationsOf(10) # {}
    /\ StmtsOf(dot, "absent") # {}

\* The edges of the document: (child, parent, gap label).
EdgesPushed == {<<dot[j].from, dot[j].to, dot[j].label>> : j \in StmtsOf(dot, "edge")}

\* C12 as stated: the edges of the scenario are 12 to 10, 10 to 5, 5 to 0 and
\* 8 to 5, each a direct edge of distance 1 without a gap label.
C12_ScenarioEdgesDirect ==
    pc = "done" =>
        /\ EdgesPushed = {<<12, 10, None>>, <<10, 5, None>>, <<5, 0, None>>, <<8, 5, None>>}
        /\ \A j \in StmtsOf(dot, "edge") : dot[j].from - dot[j].to = 1

\* C12 amended: the edges of the scenario are 12 to 10, 10 to 5, 5 to 0 and
\* 8 to 5, each a skipped-slot edge (red) labelled with its gap: 1, 4, 4 and 2.
C12_ScenarioEdgesSkipped ==
    pc = "done" =>
        /\ EdgesPushed = {<<12, 10, Some(1)>>, <<10, 5, Some(4)>>, <<5, 0, Some(4)>>,
                          <<8, 5, Some(2)>>}
        /\ \A j \in StmtsOf(dot, "edge") : dot[j].color = "red"

\* C12 witness: the document of the scenario is complete and holds the edge
\* from 12 to 10.
C12_Witness ==
    /\ pc = "done"
    /\ bank_forks = ScenarioBankForks
    /\ \E j \in StmtsOf(dot, "edge") : dot[j].from = 12 /\ dot[j].to = 10

(* --------------------------- C13: unknown history ---------------------- *)

\* The banks of the input that have no parent.
Parentless == {b \in DOMAIN bank_forks : bank_forks[b].parent = {}}

\* The dangling statements of the document that leave slot b.
DanglingFrom(b) == {j \in StmtsOf(dot, "dangling") : dot[j].from = b}

\* C13: the walk of a chain ends at the bank without a parent; above slot 0
\* that bank gets a dangling edge to the "..." placeholder and the run goes
\* on; at slot 0 it gets none.
C13_UnknownHistory ==
    /\ pc # "panicked" \/ dot = <<>>
    /\ \A j \in StmtsOf(dot, "dangling") : dot[j].from \in Parentless /\ dot[j].from > 0
    /\ \A j \in StmtsOf(dot, "edge") : dot[j].from \notin Parentless
    /\ Walked =>
          \A b \in Parentless : (DanglingFrom(b) # {}) <=> (b > 0)

\* C13 witness: the walk is over and ended at a parentless bank above slot 0.
C13_Witness ==
    /\ pc = "done"
    /\ \E b \in Parentless : b > 0 /\ DanglingFrom(b) # {}
    /\ StmtsOf(dot, "edge") # {}

(* -------------------------- C14: the all-votes index ------------------- *)

\* The vote states, with a vote, of the vote accounts of the banks B.
VotingStates(B) ==
    UNION {UNION {{vs \in bank_forks[b].vote_accounts[k].vote_state : vs.votes # <<>>} :
                     k \in DOMAIN bank_forks[b].vote_accounts} :
           b \in B}

\* The walk is under way or just over: no last vote has left all_votes yet.
Walking == pc = "walk" \/ (pc = "strafe" /\ i = 1)

\* The (validator, slot) pairs all_votes holds.
Indexed == {<<v, s>> \in (DOMAIN all_votes) \X VoteSlots : s \in DOMAIN all_votes[v]}

Voters == {vs.node_pubkey : vs \in VotingStates(DOMAIN bank_forks)}

\* C15: a vote account whose vote state is missing or has no vote adds
\* nothing; a validator without a vote on any bank has no LastVote, is
\* counted in no node summary and not in the absent summary, and gets no
\* statement of its own.
C15_NoVoteNoLastVote ==
    /\ \A v \in DOMAIN last_votes : v \in Voters /\ last_votes[v].vote_state.votes # <<>>
    /\ \A s \in DOMAIN slot_stake_and_vote_count :
          slot_stake_and_vote_count[s].votes <= Cardinality(Voters)
    /\ PastAssertion =>
          SumOver([s \in DOMAIN slot_stake_and_vote_count |->
                      slot_stake_and_vote_count[s].votes],
                  DOMAIN slot_stake_and_vote_count)
              = Cardinality(DOMAIN last_votes)
    /\ absent_votes <= Cardinality(DOMAIN last_votes)
    /\ \A j \in StmtsOf(dot, "last_vote_node") \cup StmtsOf(dot, "last_vote_edge") :
          dot[j].node_pubkey \in Voters

\* C15 witness: the document is complete, one validator has a LastVote and
\* another, with a vote account on a tip, has no vote anywhere.
C15_Witness ==
    /\ pc = "done"
    /\ DOMAIN last_votes # {}
    /\ StmtsOf(dot, "last_vote_node") # {}
    /\ \E b \in fork_slots : \E k \in DOMAIN vote_accounts(b) :
          vote_state_of(vote_accounts(b)[k]).node_pubkey \notin Voters

(* ----------------------- C16: failure of the sink ---------------------- *)

\* graph_forks has returned its document to main.
Returned == pc \in {"done", "spawn", "stdin", "wait", "create", "report", "returned"}

\* The sink has failed.
SinkFailed == \E r \in result : ~r.ok

\* C16: when the sink fails (dot is not spawned, a write fails, dot exits with
\* a non-zero status), the graph command prints the reason on stderr and
\* returns without aborting, and the document graph_forks returned is not
\* changed: what a sink has received is that document.
C16_SinkFailureReported ==
    /\ [](SinkFailed =>
            /\ pc \in {"report", "returned"}
            /\ pc = "returned" =>
                  /\ stderr # <<>>
                  /\ stderr[Len(stderr)] =
                        [text |-> "Unable to write", err |-> Unwrap(result).err]
                  /\ stdout = <<>>)
    /\ [](written # None => written = Some(dot))
    /\ [][Returned => dot' = dot]_vars

\* C16 witness: dot exited with a non-zero status after it had received the
\* document, and the graph command has returned.
C16_Witness ==
    /\ pc = "returned"
    /\ result = Err("dot failed with error")
    /\ written = Some(dot)
    /\ Len(dot) > 4

(* -------------------- C17: latest optimistic slots --------------------- *)

RECURSIVE AncestorsInclusive(_, _)
\* The slot and the slots chained below it by the slot metas, nearest first.
AncestorsInclusive(bs, slot) ==
    IF slot = 0 \/ slot \notin DOMAIN bs.meta \/ bs.meta[slot] = {} THEN <<slot>>
    ELSE <<slot>> \o AncestorsInclusive(bs, CHOOSE q \in bs.meta[slot] : TRUE)

\* The slots returned, in the order returned.
SlotsReturned == [j \in 1..Len(optimistic_slots) |-> optimistic_slots[j].slot]

\* C17: without the vote-only filter the slots returned are the highest slot
\* marked optimistically confirmed and then its ancestors, marked or not, in
\* strictly descending order: the first num_slots of them, or all of them
\* when there are fewer; nothing when no slot is marked.
C17_LatestOptimisticAncestors ==
    (pc = "collected" /\ ~exclude_vote_only_slots) =>
        /\ blockstore.optimistic = {} => optimistic_slots = <<>>
        /\ Len(optimistic_slots) <= num_slots
        /\ \A j \in 1..(Len(optimistic_slots) - 1) :
              optimistic_slots[j].slot > optimistic_slots[j + 1].slot
        /\ \A top \in blockstore.optimistic :
              (\A q \in blockstore.optimistic : q <= top) =>
                  LET chain == AncestorsInclusive(blockstore, top) IN
                  /\ num_slots >= Len(chain) => SlotsReturned = chain
                  /\ num_slots < Len(chain) => SlotsReturned = SubSeq(chain, 1, num_slots)

\* C17 witness: three chained slots are returned, the middle one not marked
\* optimistically confirmed.
C17_Witness ==
    /\ pc = "collected"
    /\ ~exclude_vote_only_slots
    /\ Len(optimistic_slots) = 3
    /\ optimistic_slots[1].hash_and_timestamp_opt # None
    /\ optimistic_slots[2].hash_and_timestamp_opt = None
    /\ optimistic_slots[3].hash_and_timestamp_opt # None

(* -------------------------- C18: edges emitted once -------------------- *)

\* C18: the step from a bank to its parent, and the dangling edge of a
\* parentless bank, is pushed once however many tips share it.
C18_EdgeDeduplication ==
    /\ \A j, k \in StmtsOf(dot, "edge") :
          (dot[j].from = dot[k].from /\ dot[j].to = dot[k].to) => j = k
    /\ \A j, k \in StmtsOf(dot, "dangling") : dot[j].from = dot[k].from => j = k

(* ------------------------ C19: serialization order --------------------- *)

\* The order of validator identities.
IdentityRank(v) == CHOOSE r \in 1..3 : v = <<"v1", "v2", "v3">>[r]

\* C19: node statements come in ascending slot order, edge statements in
\* ascending (child, parent) order and the statements of the validators in
\* ascending identity order.
C19_SerializationOrder ==
    pc = "done" =>
        /\ \A j, k \in StmtsOf(dot, "node") : j < k => dot[j].slot < dot[k].slot
        /\ \A j, k \in StmtsOf(dot, "edge") :
              j < k => \/ dot[j].from < dot[k].from
                       \/ dot[j].from = dot[k].from /\ dot[j].to < dot[k].to
        /\ \A j, k \in StmtsOf(dot, "last_vote_node") :
              j < k => IdentityRank(dot[j].node_pubkey) < IdentityRank(dot[k].node_pubkey)

(* ------------------------ C20: last-vote tie-break --------------------- *)

\* C20: a step of the last-votes loop leaves the record of a validator as it
\* is, or replaces it by a record of a strictly greater slot: of two
\* candidates of equal slot the first seen is kept.
C20_LastVoteTieBreak ==
    [][pc = "last_votes" =>
          \A v \in DOMAIN last_votes :
              /\ v \in DOMAIN last_votes'
              /\ \/ last_votes'[v] = last_votes[v]
                 \/ last_votes'[v].slot > last_votes[v].slot]_vars

\* C20 witness: two tips hold different records of one validator with the same
\* last vote slot, and the record of the tip visited first is the one kept.
C20_Witness ==
    /\ Collected
    /\ Len(fork_order) = 2
    /\ \E v \in DOMAIN last_votes :
          \E c1 \in Candidates({fork_order[1]}, v), c2 \in Candidates({fork_order[2]}, v) :
              c1.slot = c2.slot /\ c1 # c2 /\ last_votes[v] = c1

(* --------------------------- C21: tip highlighting --------------------- *)

\* C21: a node statement is filled exactly when its slot is a tip, whatever
\* the order in which the tips are walked; once the walk is over every tip
\* has its filled node.
C21_TipHighlighting ==
    /\ \A j \in StmtsOf(dot, "node") : dot[j].filled <=> dot[j].slot \in fork_slots
    /\ Walked =>
          \A t \in fork_slots : \E j \in StmtsOf(dot, "node") : dot[j].slot = t /\ dot[j].filled

\* C21 witness: two tips are filled and the ancestor they share is not.
C21_Witness ==
    /\ pc = "done"
    /\ Cardinality(fork_slots) = 2
    /\ \E j \in StmtsOf(dot, "node") : ~dot[j].filled
    /\ Cardinality({j \in StmtsOf(dot, "node") : dot[j].filled}) = 2

(* ------------------------- C22: epoch-crossing edges ------------------- *)

\* The epoch shown on the node statement of slot b.
EpochShown(b) == (CHOOSE n \in {dot[j] : j \in StmtsOf(dot, "node")} : n.slot = b).epoch

\* C22: once the walk is over, every edge statement has pen width 5 when the
\* epoch of the child is above the epoch of the parent and pen width 1
\* otherwise, with or without a gap label.
C22_EpochCrossing ==
    Walked =>
        \A j \in StmtsOf(dot, "edge") :
            dot[j].penwidth = IF EpochShown(dot[j].from) > EpochShown(dot[j].to) THEN 5 ELSE 1

\* C22 witness: an epoch-crossing edge with a gap label and an edge inside
\* one epoch without one.
C22_Witness ==
    /\ pc = "done"
    /\ \E j \in StmtsOf(dot, "edge") : dot[j].penwidth = 5 /\ dot[j].label # {}
    /\ \E j \in StmtsOf(dot, "edge") : dot[j].penwidth = 1 /\ dot[j].label = {}

(* ------------------------------ C23: termination ----------------------- *)

\* The document is whole: it opens with "digraph {" and closes with "}".
Complete == Len(dot) >= 2 /\ dot[1] = Text("digraph {") /\ dot[Len(dot)] = Text("}")

\* C23 as stated: on every input graph_forks finishes with a complete document.
C23_AlwaysFinishes == <>(pc = "done" /\ Complete)

\* C23 amended: graph_forks ends, either aborted by the stake assertion with
\* no statement produced or with a complete document; every step of a tip
\* walk goes to a bank of a lower slot, and a walk once begun ends with the
\* complete document.
C23_Termination ==
    /\ <>(pc = "panicked" \/ pc = "done")
    /\ [](pc = "panicked" => dot = <<>>)
    /\ [](pc = "done" => Complete)
    /\ [][(pc = "walk" /\ pc' = "walk" /\ i' = i) => Unwrap(bank') < Unwrap(bank)]_vars
    /\ (pc = "walk") ~> (pc = "done" /\ Complete)

\* C23 witness: the complete document of two tips that share an ancestor.
C23_Witness ==
    /\ pc = "done"
    /\ Complete
    /\ Cardinality(fork_slots) = 2
    /\ Cardinality(RenderedSlots) = 3

(* ----------------------------- C24: sink selection --------------------- *)

\* The sink the claim names for an extension.
SinkClaimed(ext) ==
    CASE ext = "pdf" -> [via |-> "render_dot", output_format |-> "pdf"]
      [] ext = "png" -> [via |-> "render_dot", output_format |-> "png"]
      [] OTHER -> [via |-> "File::create", output_format |-> ""]

\* C24: the sink is dot with format pdf for the extension pdf, dot with format
\* png for png and the file itself for any other or no extension; it is
\* chosen once, after graph_forks has returned the complete document, and it
\* is the only one to receive the document.
C24_SinkSelection ==
    /\ [](sink # None =>
            /\ sink = Some(SinkClaimed(extension))
            /\ Returned /\ pc # "done"
            /\ Complete
            /\ pc \in {"spawn", "stdin", "wait"} => Unwrap(sink).via = "render_dot"
            /\ pc = "create" => Unwrap(sink).via = "File::create")
    /\ [](sink = None => written = None /\ result = None)
    /\ [][sink # None => (sink' = sink /\ dot' = dot)]_vars

\* C24 witness: the file name ends in png and dot has received the document.
C24_Witness ==
    /\ extension = "png"
    /\ sink = Some([via |-> "render_dot", output_format |-> "png"])
    /\ written = Some(dot)
    /\ pc = "returned"

(* ----------------------- C25: per-validator annotation ----------------- *)

\* The statements of a kind that name the validator.
StmtsAbout(kind, v) == {j \in StmtsOf(dot, kind) : dot[j].node_pubkey = v}

\* C25: once the last votes are strafed, an enabled mode has left one
\* annotation node and one dashed edge for each validator with a LastVote, the
\* edge leading to the last-vote slot when it is rendered and to "..."
\* otherwise; the mode Disabled has left none.
C25_ValidatorAnnotation ==
    Classified =>
        IF config.vote_account_mode \in {"LastOnly", "WithHistory"}
        THEN /\ \A v \in DOMAIN last_votes :
                  /\ Cardinality(StmtsAbout("last_vote_node", v)) = 1
                  /\ Cardinality(StmtsAbout("last_vote_edge", v)) = 1
                  /\ \A j \in StmtsAbout("last_vote_edge", v) :
                        dot[j].to = IF last_votes[v].slot \in RenderedSlots
                                    THEN Some(last_votes[v].slot) ELSE None
             /\ \A j \in StmtsOf(dot, "last_vote_node") \cup StmtsOf(dot, "last_vote_edge") :
                  dot[j].node_pubkey \in DOMAIN last_votes
        ELSE StmtsOf(dot, "last_vote_node") \cup StmtsOf(dot, "last_vote_edge") = {}

\* C25 witness: an enabled mode has drawn an edge to a rendered slot and an
\* edge to "...".
C25_Witness ==
    /\ pc = "done"
    /\ is_enabled(config.vote_account_mode)
    /\ \E j, k \in StmtsOf(dot, "last_vote_edge") : dot[j].to = None /\ dot[k].to # None

(* ------------------- C26: when the stake assertion fires --------------- *)

\* Two validators whose LastVote records share a slot and differ in total stake.
Disagreeing ==
    {pair \in (DOMAIN last_votes) \X (DOMAIN last_votes) :
        /\ pair[1] # pair[2]
        /\ last_votes[pair[1]].slot = last_votes[pair[2]].slot
        /\ last_votes[pair[1]].total_stake # last_votes[pair[2]].total_stake}

\* C26: the run is aborted by the stake assertion exactly when two different
\* validators have LastVote records of the same slot with different total
\* stakes: an aborted run has such a pair, a run past the assertion has none,
\* whatever the records of different slots and the replaced candidates were.
C26_StakeAssertionExact ==
    /\ pc = "panicked" => Disagreeing # {}
    /\ PastAssertion => Disagreeing = {}

\* C26 witness: the run went past the assertion with two records of different
\* slots and different total stakes.
C26_Witness ==
    /\ pc = "done"
    /\ \E v, w \in DOMAIN last_votes :
          /\ last_votes[v].slot # last_votes[w].slot
          /\ last_votes[v].total_stake # last_votes[w].total_stake

(* --------------------- C27: vote-count conservation -------------------- *)

\* The validator identities with a final vote in a vote account of a tip.
TipVoters == {v \in Nodes : Candidates(fork_slots, v) # {}}

\* C27: the vote counts of the last-vote slots add up to the number of
\* validator identities with a LastVote, and so do the absent votes plus the
\* votes annotated on the rendered nodes; an identity counts once, however
\* many vote accounts of a chain state name it.
C27_VoteConservation ==
    /\ Collected => DOMAIN last_votes = TipVoters
    /\ PastAssertion =>
          SumOver([s \in DOMAIN slot_stake_and_vote_count |->
                      slot_stake_and_vote_count[s].votes],
                  DOMAIN slot_stake_and_vote_count)
              = Cardinality(TipVoters)
    /\ Classified => absent_votes + AnnotatedVotes = Cardinality(TipVoters)

\* C27 witness: the document is complete and two vote accounts of one tip
\* hold votes of the same identity.
C27_Witness ==
    /\ pc = "done"
    /\ \E b \in fork_slots : \E k1, k2 \in DOMAIN vote_accounts(b) :
          /\ k1 # k2
          /\ \E x \in vote_accounts(b)[k1].vote_state :
             \E y \in vote_accounts(b)[k2].vote_state :
                x.node_pubkey = y.node_pubkey /\ x.votes # <<>> /\ y.votes # <<>>
    /\ Cardinality(DOMAIN last_votes) = 1

(* ------------------------ C28: the all-votes links --------------------- *)

\* The (validator, slot) pairs recorded on the banks walked, without the pair
\* of each validator's LastVote slot.
OtherVotes ==
    {<<vs.node_pubkey, vs.votes[Len(vs.votes)]>> : vs \in VotingStates(styled_slots)}
        \ {<<v, last_votes[v].slot>> : v \in DOMAIN last_votes}

\* The statements of a kind about the vote of a validator on a slot.
StmtsAboutVote(kind, v, s) ==
    {j \in StmtsOf(dot, kind) : dot[j].node_pubkey = v /\ dot[j].slot = s}

\* C28: with include_all_votes the complete document has one dotted node and
\* one dotted edge for every recorded (validator, slot) pair but the pair of
\* the validator's LastVote slot, and for no other pair; the edge leads to
\* the voted slot when it is rendered and to "..." otherwise. Without
\* include_all_votes there is no dotted statement.
C28_AllVotesLinks ==
    /\ pc = "done" =>
          IF config.include_all_votes
          THEN /\ \A e \in OtherVotes :
                    /\ Cardinality(StmtsAboutVote("vote_node", e[1], e[2])) = 1
                    /\ Cardinality(StmtsAboutVote("vote_edge", e[1], e[2])) = 1
               /\ \A j \in StmtsOf(dot, "vote_node") \cup StmtsOf(dot, "vote_edge") :
                    <<dot[j].node_pubkey, dot[j].slot>> \in OtherVotes
               /\ \A j \in StmtsOf(dot, "vote_edge") :
                    dot[j].to = IF dot[j].slot \in RenderedSlots
                                THEN Some(dot[j].slot) ELSE None
          ELSE StmtsOf(dot, "vote_node") \cup StmtsOf(dot, "vote_edge") = {}
    /\ pc # "done" => StmtsOf(dot, "vote_node") \cup StmtsOf(dot, "vote_edge") = {}

\* C28 witness: a validator has a dotted edge for one recorded vote, and the
\* pair of its LastVote slot has been left out.
C28_Witness ==
    /\ pc = "done"
    /\ \E j \in StmtsOf(dot, "vote_edge") : dot[j].node_pubkey \in DOMAIN last_votes
    /\ \E v \in DOMAIN last_votes :
          \E vs \in VotingStates(styled_slots) :
              vs.node_pubkey = v /\ vs.votes[Len(vs.votes)] = last_votes[v].slot

(* ------------------------ C29: the absent summary ---------------------- *)

\* C29: after the strafe loop the document has the "..." summary statement
\* exactly when some LastVote is absent, and never twice; its denominator is
\* the total stake of an absent LastVote, or the initial 0 when every absent
\* LastVote has the maximum slot.
C29_AbsentSummary ==
    /\ pc \in {"all_votes", "done"} =>
          /\ (StmtsOf(dot, "absent") # {}) <=> (AbsentVoters # {})
          /\ Cardinality(StmtsOf(dot, "absent")) <= 1
          /\ \A j \in StmtsOf(dot, "absent") :
                \/ \E v \in AbsentVoters : dot[j].total_stake = last_votes[v].total_stake
                \/ /\ dot[j].total_stake = 0
                   /\ \A v \in AbsentVoters : last_votes[v].slot = U64_MAX
    /\ pc \notin {"all_votes", "done"} => StmtsOf(dot, "absent") = {}

\* C29 witness: the summary stands for two absent LastVotes of different
\* slots, one of them the maximum slot, and shows a total stake.
C29_Witness ==
    /\ pc = "done"
    /\ \E j \in StmtsOf(dot, "absent") : dot[j].total_stake > 0
    /\ \E v, w \in AbsentVoters :
          last_votes[v].slot < last_votes[w].slot /\ last_votes[w].slot = U64_MAX

(* --------------------- C30: GraphVoteAccountMode ----------------------- *)

\* C30: from_str(as_ref(m)) is Ok(m) for each of the three modes; from_str of
\* a string that is none of the three mode strings is the error that carries
\* the string; is_enabled is false for Disabled only; the default is Disabled.
C30_ModeRoundTrip ==
    /\ \A r \in reparsed : r = OkMode(mode_value)
    /\ \A r \in parsed :
          IF mode_string \in {"disabled", "last-only", "with-history"}
          THEN r.ok
          ELSE r = ErrMode(mode_string)
    /\ \A e \in enabled : e = (mode_value # "Disabled")
    /\ \A d \in default_mode : d = "Disabled"

\* C30 witness: LastOnly came back from its string and is enabled, the name
\* of the variant was refused as a string, and the default was taken.
C30_Witness ==
    /\ mode_value = "LastOnly"
    /\ mode_str = Some("last-only")
    /\ reparsed = Some(OkMode("LastOnly"))
    /\ parsed = Some(ErrMode("LastOnly"))
    /\ enabled = Some(TRUE)
    /\ default_mode = Some("Disabled")

====
